---- MODULE Spec2Model ----
(***************************************************************************)
(* Model of rc/util/exc_string.py: force_string, trace_string, exc_string  *)
(* and the global encoding setting.                                        *)
(*                                                                         *)
(* A string (Python 2 str or unicode) is a sequence of character codes:    *)
(* bytes 0..255 for str, code points for unicode.  A call's outcome is a   *)
(* record [raised, s, depth]: raised = TRUE when the call ends with an     *)
(* exception leaving the function, s the returned string otherwise, depth  *)
(* the number of times force_string re-entered itself.                     *)
(***************************************************************************)
EXTENDS Integers, Sequences, FiniteSets, TLC

VARIABLES exc_string_encoding, exc, stack, last

vars == <<exc_string_encoding, exc, stack, last>>

(* ---------------------------------------------------------------- bounds *)
MaxDepth == 3
MaxTb == 2

(* ------------------------------------------------------- string notation *)
Printable ==
  << " ", "!", "\"", "#", "$", "%", "&", "'", "(", ")", "*", "+", ",", "-", ".", "/",
     "0", "1", "2", "3", "4", "5", "6", "7", "8", "9", ":", ";", "<", "=", ">", "?",
     "@", "A", "B", "C", "D", "E", "F", "G", "H", "I", "J", "K", "L", "M", "N", "O",
     "P", "Q", "R", "S", "T", "U", "V", "W", "X", "Y", "Z", "[", "\\", "]", "^", "_",
     "(96)", "a", "b", "c", "d", "e", "f", "g", "h", "i", "j", "k", "l", "m", "n", "o",
     "p", "q", "r", "s", "t", "u", "v", "w", "x", "y", "z", "{", "|", "}", "~" >>

\* ord(c) of a printable ASCII character: Printable[1] is chr(32); the
\* entry of chr(96) is a placeholder, no literal of the source uses it.
Ord(c) == 31 + (CHOOSE i \in 1..Len(Printable) : Printable[i] = c)

\* a string literal of the source, as its sequence of character codes
Lit(cs) == [i \in 1..Len(cs) |-> Ord(cs[i])]

\* chr(i): the one-character string of code i
chr(i) == <<i>>

RECURSIVE Join(_, _)
\* sep.join(parts)
Join(sep, parts) ==
  IF parts = <<>> THEN <<>>
  ELSE IF Len(parts) = 1 THEN parts[1]
  ELSE parts[1] \o sep \o Join(sep, Tail(parts))

RECURSIVE Digits(_)
Digits(n) == IF n < 10 THEN <<48 + n>> ELSE Digits(n \div 10) \o <<48 + (n % 10)>>

\* "%s" % n for an integer n: its decimal representation
IntToStr(n) == IF n < 0 THEN <<45>> \o Digits(0 - n) ELSE Digits(n)

(* -------------------------------------------------------------- outcomes *)
Ret(s) == [raised |-> FALSE, s |-> s, depth |-> 0]
Raised == [raised |-> TRUE, s |-> <<>>, depth |-> 0]

(* ---------------------------------------------------------------- values *)
NoneV == [kind |-> "None"]
StrV(s) == [kind |-> "str", s |-> s]
UniV(s) == [kind |-> "unicode", s |-> s]
IntV(n) == [kind |-> "int", n |-> n]
\* a class object; it has a __name__
ClassV(name) == [kind |-> "class", name |-> name]
\* an exception instance cls(arg)
InstV(cls, arg) == [kind |-> "instance", cls |-> cls, arg |-> arg]
\* an instance of a class with its own __str__: beh is "raise" (it raises),
\* "self" (it returns the object itself) or "value" (it returns ret)
ObjV(cls, beh, ret) == [kind |-> "object", cls |-> cls, beh |-> beh, ret |-> ret]

(* ------------------------------------------------------------- encodings *)
\* the codecs of the host; any other name makes decode/encode raise LookupError
HostCodecs == {"windows-1251", "ascii", "latin-1"}

\* what a codec puts for a byte it cannot decode, and for a character it
\* cannot encode, under errors="replace"
ReplacementChar == 65533
QMark == 63

\* bytes 0x80..0xBF of windows-1251 (0x98 is undefined: 0 here)
Cp1251High ==
  << 1026, 1027, 8218, 1107, 8222, 8230, 8224, 8225, 8364, 8240, 1033, 8249, 1034, 1036, 1035, 1039,
     1106, 8216, 8217, 8220, 8221, 8226, 8211, 8212, 0, 8482, 1113, 8250, 1114, 1116, 1115, 1119,
     160, 1038, 1118, 1032, 164, 1168, 166, 167, 1025, 169, 1028, 171, 172, 173, 174, 1031,
     176, 177, 1030, 1110, 1169, 181, 182, 183, 1105, 8470, 1108, 187, 1112, 1029, 1109, 1111 >>

\* the code point of byte b under codec enc, or ReplacementChar
DecodeByte(b, enc) ==
  IF b < 128 THEN b
  ELSE IF enc = "latin-1" THEN b
  ELSE IF enc = "windows-1251" THEN
    IF b >= 192 THEN b + 848
    ELSE IF Cp1251High[b - 127] = 0 THEN ReplacementChar ELSE Cp1251High[b - 127]
  ELSE ReplacementChar

\* the byte of code point c under codec enc, or "?"
EncodeChar(c, enc) ==
  IF c < 128 THEN c
  ELSE IF enc = "latin-1" THEN (IF c < 256 THEN c ELSE QMark)
  ELSE IF enc = "windows-1251" THEN
    IF c >= 1040 /\ c <= 1103 THEN c - 848
    ELSE IF \E b \in 128..191 : Cp1251High[b - 127] = c
      THEN CHOOSE b \in 128..191 : Cp1251High[b - 127] = c
      ELSE QMark
  ELSE QMark

\* s.decode(enc, "replace")
decode(s, enc) ==
  IF enc \notin HostCodecs THEN Raised
  ELSE Ret([i \in 1..Len(s) |-> DecodeByte(s[i], enc)])

\* u.encode(enc, "replace")
encode(u, enc) ==
  IF enc \notin HostCodecs THEN Raised
  ELSE Ret([i \in 1..Len(u) |-> EncodeChar(u[i], enc)])

(* ---------------------------------------------------------- force_string *)
\* a variant of TranslatePrefix: tab mapped to a space, NUL and carriage
\* return to "?"
TranslatePrefix_TabToSpace ==
  Lit(<<"?", "?", "?", "?", "?", "?", "?", "?", "?", " ", " ", "?", "?", "?", "?", "?",
        "?", "?", "?", "?", "?", "?", "?", "?", "?", "?", "?", "?", "?", "?", "?", "?">>)

\* the 32 characters of the literal that starts force_string_translate_map
TranslatePrefix ==
  Lit(<<" ", "?", "?", "?", "?", "?", "?", "?", "?">>) \o <<9>>
    \o Lit(<<" ", "?", "?", " ">>)
    \o Lit(<<"?", "?", "?", "?", "?", "?", "?", "?", "?",
             "?", "?", "?", "?", "?", "?", "?", "?", "?">>)

\* "".join([chr(i) for i in range(lo, hi)])
ChrRange(lo, hi) == [i \in 1..(hi - lo) |-> chr(lo + i - 1)[1]]

force_string_translate_map == TranslatePrefix \o ChrRange(32, 256)

\* v.translate(force_string_translate_map)
translate(s) == [i \in 1..Len(s) |-> force_string_translate_map[s[i] + 1]]

\* the names of the built-in types
NoneTypeName == Lit(<<"N", "o", "n", "e", "T", "y", "p", "e">>)
IntName == Lit(<<"i", "n", "t">>)
StrName == Lit(<<"s", "t", "r">>)
UnicodeName == Lit(<<"u", "n", "i", "c", "o", "d", "e">>)
TypeName_type == Lit(<<"t", "y", "p", "e">>)

\* v.__class__.__name__
ClassName(v) ==
  CASE v.kind = "None" -> NoneTypeName
    [] v.kind = "int" -> IntName
    [] v.kind = "str" -> StrName
    [] v.kind = "unicode" -> UnicodeName
    [] v.kind = "class" -> TypeName_type
    [] v.kind \in {"instance", "object"} -> v.cls

\* what str() makes of the result of a __str__: a str stays, a unicode is
\* encoded with the default codec (ascii, strict), anything else is a TypeError
StrResult(r) ==
  CASE r.kind = "str" -> Ret(r.s)
    [] r.kind = "unicode" ->
         IF \A i \in 1..Len(r.s) : r.s[i] < 128 THEN Ret(r.s) ELSE Raised
    [] OTHER -> Raised

\* str(None)
NoneText == Lit(<<"N", "o", "n", "e">>)

\* str(v) for a value that is neither str nor unicode
str(v) ==
  CASE v.kind = "None" -> Ret(NoneText)
    [] v.kind = "int" -> Ret(IntToStr(v.n))
    [] v.kind = "instance" ->
         CASE v.arg.kind = "None" -> Ret(NoneText)
           [] v.arg.kind = "int" -> Ret(IntToStr(v.arg.n))
           [] OTHER -> StrResult(v.arg)
    [] v.kind = "object" ->
         CASE v.beh = "raise" -> Raised
           [] v.beh = "self" -> Raised
           [] v.beh = "value" -> StrResult(v.ret)

\* "unable to convert %s to string, str() failed", before and after the %s
UnablePrefix ==
  Lit(<<"u", "n", "a", "b", "l", "e", " ", "t", "o", " ", "c", "o", "n", "v", "e", "r", "t", " ">>)
UnableSuffix ==
  Lit(<<" ", "t", "o", " ", "s", "t", "r", "i", "n", "g", ",", " ",
        "s", "t", "r", "(", ")", " ", "f", "a", "i", "l", "e", "d">>)

\* a variant of UnableToConvert: v.__class__.__class__.__name__
UnableToConvert_MetaClass(v) == UnablePrefix \o TypeName_type \o UnableSuffix

\* the string returned when str(v) fails
UnableToConvert(v) == UnablePrefix \o ClassName(v) \o UnableSuffix

\* the str branch: decode, encode, translate
ForceStr(s, enc) ==
  LET d == decode(s, enc) IN
    IF d.raised THEN Raised
    ELSE LET e == encode(d.s, enc) IN
      IF e.raised THEN Raised ELSE Ret(translate(e.s))

\* a variant of ForceUnicode: the default encoding, not the current setting
ForceUnicode_DefaultEncoding(u, enc) == Ret(translate(encode(u, "windows-1251").s))

\* the unicode branch: encode, translate
ForceUnicode(u, enc) ==
  LET e == encode(u, enc) IN
    IF e.raised THEN Raised ELSE Ret(translate(e.s))

\* one more level of force_string on the way back
Reentered(r) == [r EXCEPT !.depth = @ + 1]

RECURSIVE force_string(_, _)
\* force_string(v) while exc_string_encoding is enc
force_string(v, enc) ==
  IF v.kind = "str" THEN ForceStr(v.s, enc)
  ELSE IF v.kind = "unicode" THEN ForceUnicode(v.s, enc)
  ELSE LET r == str(v) IN
    IF r.raised THEN Ret(UnableToConvert(v))
    ELSE Reentered(force_string(StrV(r.s), enc))

(* ---------------------------------------------------------- trace_string *)
\* a variant of _reversed: the list as it is
_reversed_Same(r) == r

\* _reversed(r): a reversed copy
_reversed(r) == [i \in 1..Len(r) |-> r[Len(r) + 1 - i]]

\* the index of the last "/" of path p, 0 when it has none
LastSlash(p) ==
  IF \E i \in 1..Len(p) : p[i] = 47
  THEN CHOOSE i \in 1..Len(p) : p[i] = 47 /\ \A j \in (i + 1)..Len(p) : p[j] # 47
  ELSE 0

\* path.split(f)[1]: what follows the last "/"
Basename(p) == SubSeq(p, LastSlash(p) + 1, Len(p))

\* the fixed pieces of "%s() (%s:%s)" and the separator " <- "
FrameOpen == Lit(<<"(", ")", " ", "(">>)
FrameColon == Lit(<<":">>)
FrameClose == Lit(<<")">>)
Arrow == Lit(<<" ", "<", "-", " ">>)

\* "%s() (%s:%s)" % (m, path.split(f)[1], n)
FormatFrame(fr) ==
  fr.m \o FrameOpen \o Basename(fr.f) \o FrameColon \o IntToStr(fr.n) \o FrameClose

\* the frame of trace_string itself, the last one extract_stack() sees
TraceStringFrame ==
  [f |-> Lit(<<"/", "r", "c", "/", "u", "t", "i", "l", "/", "e", "x", "c", "_",
               "s", "t", "r", "i", "n", "g", ".", "p", "y">>),
   n |-> 109,
   m |-> Lit(<<"t", "r", "a", "c", "e", "_", "s", "t", "r", "i", "n", "g">>)]

\* the frame of exc_string while it calls trace_string
ExcStringFrame ==
  [f |-> Lit(<<"/", "r", "c", "/", "u", "t", "i", "l", "/", "e", "x", "c", "_",
               "s", "t", "r", "i", "n", "g", ".", "p", "y">>),
   n |-> 127,
   m |-> Lit(<<"e", "x", "c", "_", "s", "t", "r", "i", "n", "g">>)]

\* extract_stack() called in trace_string, whose callers are `callers`
extract_stack(callers) == Append(callers, TraceStringFrame)

\* tb or extract_stack()[:-1]: None and the empty list are both false
TbOrStack(tb, callers) ==
  IF tb.given /\ tb.frames # <<>> THEN tb.frames
  ELSE SubSeq(extract_stack(callers), 1, Len(extract_stack(callers)) - 1)

\* an argument of trace_string: None (the default), or a frame sequence
NoTb == [given |-> FALSE, frames |-> <<>>]
Tb(frames) == [given |-> TRUE, frames |-> frames]

\* trace_string(tb), called from the frames `callers` while
\* exc_string_encoding is enc
trace_string(tb, callers, enc) ==
  LET r == _reversed(TbOrStack(tb, callers))
      parts == [i \in 1..Len(r) |-> force_string(StrV(FormatFrame(r[i])), enc)]
  IN IF \E i \in 1..Len(r) : parts[i].raised THEN Raised
     ELSE Ret(Join(Arrow, [i \in 1..Len(r) |-> parts[i].s]))

(* ------------------------------------------------------------ exc_string *)
\* exc_info() with no exception being handled: (None, None, None)
NoExc == [active |-> FALSE, t |-> NoneV, v |-> NoneV, tb |-> <<>>, hd |-> 0]

\* a variant of TypeName: always type(t).__name__
TypeName_OfType(t) == ClassName(t)

\* t.__name__ if hasattr(t, "__name__") else type(t).__name__
TypeName(t) == IF t.kind = "class" THEN t.name ELSE ClassName(t)

NoException == Lit(<<"n", "o", " ", "e", "x", "c", "e", "p", "t", "i", "o", "n">>)

FailedToExtract ==
  Lit(<<"e", "x", "c", "_", "s", "t", "r", "i", "n", "g", "(", ")", " ",
        "f", "a", "i", "l", "e", "d", " ", "t", "o", " ",
        "e", "x", "t", "r", "a", "c", "t", " ",
        "e", "x", "c", "e", "p", "t", "i", "o", "n", " ",
        "s", "t", "r", "i", "n", "g">>)

\* the fixed pieces of "%s(\"%s\") in %s"
ComposeOpen == Lit(<<"(", "\"">>)
ComposeIn == Lit(<<"\"", ")", " ", "i", "n", " ">>)

\* "%s(\"%s\") in %s" % (t, v, trace)
Compose(t, v, trace) == t \o ComposeOpen \o v \o ComposeIn \o trace

\* a variant of exc_string: no try/except around the body
exc_string_NoCatch(e, callers, tbFails, enc) ==
  IF ~e.active THEN Ret(NoException)
  ELSE
    LET v == force_string(IF e.v.kind # "None" THEN e.v ELSE e.t, enc)
        tr == trace_string(Tb(e.tb), Append(callers, ExcStringFrame), enc)
    IN IF v.raised \/ tbFails \/ tr.raised THEN Raised
       ELSE Ret(Compose(TypeName(e.t), v.s, tr.s))

\* exc_string() while exc_info() is e and exc_string_encoding is enc, called
\* from the frames `callers`; tbFails: extract_tb raises (the call is made at
\* the recursion limit)
exc_string(e, callers, tbFails, enc) ==
  IF ~e.active THEN Ret(NoException)
  ELSE
    LET v == force_string(IF e.v.kind # "None" THEN e.v ELSE e.t, enc)
        t == TypeName(e.t)
        tr == trace_string(Tb(e.tb), Append(callers, ExcStringFrame), enc)
    IN IF v.raised \/ tbFails \/ tr.raised THEN Ret(FailedToExtract)
       ELSE Ret(Compose(t, v.s, tr.s))

(* ----------------------------------------------------------------- inputs *)
\* the names given to set_exc_string_encoding: the default, the one the
\* self-tests switch to, and a name the host does not know
Encodings == {"windows-1251", "ascii", "no-such-codec"}

\* the same, and a codec that maps every byte to itself
ByteEncodings == Encodings \cup {"latin-1"}

\* "z\xffz\n    ", the message of the docstring's sample
SampleMessage == <<122, 255, 122, 10, 32, 32, 32, 32>>

\* a Cyrillic byte string in windows-1251 and the same text as unicode
russian == <<192, 168, 255>>
russian_unicode == <<1040, 1025, 1103>>

\* Hebrew letters, which no codec of the host above can encode
hebrew == <<1488, 1489>>

\* NUL, tab, newline, carriage return, escape
ControlChars == <<0, 9, 10, 13, 27>>

ExceptionName == Lit(<<"E", "x", "c", "e", "p", "t", "i", "o", "n">>)
MyExceptionName == Lit(<<"M", "y", "E", "x", "c", "e", "p", "t", "i", "o", "n">>)
\* type("A\nB", (Exception,), {}): a class whose name holds a newline
NewlineName == <<65, 10, 66>>

\* the values force_string is called with
Values ==
  { NoneV, IntV(10),
    StrV(SampleMessage), StrV(russian), StrV(ControlChars),
    UniV(russian_unicode), UniV(hebrew),
    InstV(ExceptionName, StrV(Lit(<<"f", "o", "o">>))),
    InstV(ExceptionName, IntV(10)),
    InstV(ExceptionName, UniV(russian_unicode)),
    ObjV(Lit(<<"F", "o", "o">>), "raise", NoneV),
    ObjV(Lit(<<"B", "a", "r">>), "self", NoneV),
    ObjV(Lit(<<"B", "a", "z">>), "value", IntV(10)),
    ObjV(Lit(<<"Q", "u", "x">>), "value", StrV(ControlChars)) }

\* what can be raised: (type slot, value slot) of exc_info()
Raisable ==
  { [t |-> ClassV(ExceptionName), v |-> InstV(ExceptionName, StrV(SampleMessage))],
    [t |-> ClassV(MyExceptionName), v |-> InstV(MyExceptionName, UniV(hebrew))],
    [t |-> ClassV(NewlineName), v |-> InstV(NewlineName, StrV(russian))],
    [t |-> StrV(russian), v |-> NoneV] }

\* the frames of the calling program: module level, foo, __init__, and recur
\* below them
ModuleFrame ==
  [f |-> <<47, 115, 114, 118, 47, 109, 233, 105, 110, 46, 112, 121>>,
   n |-> 12, m |-> Lit(<<"?">>)]
FooFrame ==
  [f |-> Lit(<<"/", "h", "o", "m", "e", "/", "u", "/", "t", "e", "s", "t", ".", "p", "y">>),
   n |-> 7, m |-> Lit(<<"f", "o", "o">>)]
InitFrame ==
  [f |-> Lit(<<"t", "e", "s", "t", ".", "p", "y">>),
   n |-> 5, m |-> Lit(<<"_", "_", "i", "n", "i", "t", "_", "_">>)]
RecurFrame ==
  [f |-> Lit(<<"l", "i", "b", "/">>), n |-> 100, m |-> Lit(<<"r", "e", "c", "u", "r">>)]

\* the frame at depth i of the calling program
FrameAt(i) ==
  CASE i = 1 -> ModuleFrame
    [] i = 2 -> FooFrame
    [] i = 3 -> InitFrame
    [] OTHER -> [RecurFrame EXCEPT !.n = 100 + i]

\* the frames that frame sequences given to trace_string are made of
Frames == {ModuleFrame, InitFrame}

RECURSIVE SeqsUpTo(_)
\* the sequences of at most n of these frames
SeqsUpTo(n) ==
  IF n = 0 THEN {<<>>}
  ELSE SeqsUpTo(n - 1) \cup {Append(fs, fr) : fs \in SeqsUpTo(n - 1), fr \in Frames}

\* the frame sequences given to trace_string: every one of at most MaxTb frames
FrameSeqs == SeqsUpTo(MaxTb)

(* ------------------------------------------------------------------ state *)
\* the last call: its name, its argument, its outcome and, for the two
\* accessors, the encoding name passed or returned
Idle == [op |-> "none", arg |-> NoneV, res |-> Ret(<<>>), name |-> ""]

Init ==
  /\ exc_string_encoding = "windows-1251"
  /\ exc = NoExc
  /\ stack = <<FrameAt(1)>>
  /\ last = Idle

(* ---------------------------------------------------------- the five calls *)
get_exc_string_encoding ==
  /\ last' = [op |-> "get", arg |-> NoneV, res |-> Ret(<<>>),
              name |-> exc_string_encoding]
  /\ UNCHANGED <<exc_string_encoding, exc, stack>>

set_exc_string_encoding(encoding) ==
  /\ exc_string_encoding' = encoding
  /\ last' = [op |-> "set", arg |-> NoneV, res |-> Ret(<<>>), name |-> encoding]
  /\ UNCHANGED <<exc, stack>>

CallForceString(v) ==
  /\ last' = [op |-> "force_string", arg |-> v,
              res |-> force_string(v, exc_string_encoding), name |-> ""]
  /\ UNCHANGED <<exc_string_encoding, exc, stack>>

CallTraceString(tb) ==
  /\ last' = [op |-> "trace_string", arg |-> tb,
              res |-> trace_string(tb, stack, exc_string_encoding), name |-> ""]
  /\ UNCHANGED <<exc_string_encoding, exc, stack>>

CallExcString(tbFails) ==
  /\ last' = [op |-> "exc_string", arg |-> [kind |-> "flag", tbFails |-> tbFails],
              res |-> exc_string(exc, stack, tbFails, exc_string_encoding), name |-> ""]
  /\ UNCHANGED <<exc_string_encoding, exc, stack>>

(* ------------------------------------------------------ the calling program *)
\* the program calls one function deeper
Call ==
  /\ Len(stack) < MaxDepth
  /\ stack' = Append(stack, FrameAt(Len(stack) + 1))
  /\ last' = Idle
  /\ UNCHANGED <<exc_string_encoding, exc>>

\* the innermost function returns; leaving the frame that handles the
\* exception ends the handling
Return ==
  /\ Len(stack) > 1
  /\ stack' = SubSeq(stack, 1, Len(stack) - 1)
  /\ exc' = IF exc.active /\ exc.hd = Len(stack) THEN NoExc ELSE exc
  /\ last' = Idle
  /\ UNCHANGED exc_string_encoding

\* the innermost function raises r, and the frame at depth h handles it: the
\* traceback runs from the handling frame to the raising one
Raise(r, h) ==
  /\ exc' = [active |-> TRUE, t |-> r.t, v |-> r.v,
             tb |-> SubSeq(stack, h, Len(stack)), hd |-> h]
  /\ stack' = SubSeq(stack, 1, h)
  /\ last' = Idle
  /\ UNCHANGED exc_string_encoding

\* sys.exc_clear()
exc_clear ==
  /\ exc.active
  /\ exc' = NoExc
  /\ last' = Idle
  /\ UNCHANGED <<exc_string_encoding, stack>>

Next ==
  \/ get_exc_string_encoding
  \/ \E e \in Encodings : set_exc_string_encoding(e)
  \/ \E v \in Values : CallForceString(v)
  \/ CallTraceString(NoTb)
  \/ \E fs \in FrameSeqs : CallTraceString(Tb(fs))
  \/ \E b \in BOOLEAN : CallExcString(b)
  \/ Call
  \/ Return
  \/ \E r \in Raisable, h \in 1..Len(stack) : Raise(r, h)
  \/ exc_clear

Spec == Init /\ [][Next]_vars

(* ------------------------------------- force_string over every byte value *)
\* force_string of the one-byte string chr(c)
CallForceStringByte(c) ==
  /\ last' = [op |-> "force_string", arg |-> StrV(chr(c)),
              res |-> force_string(StrV(chr(c)), exc_string_encoding), name |-> ""]
  /\ UNCHANGED <<exc_string_encoding, exc, stack>>

NextBytes ==
  \/ \E e \in ByteEncodings : set_exc_string_encoding(e)
  \/ \E c \in 0..255 : CallForceStringByte(c)

SpecBytes == Init /\ [][NextBytes]_vars

(* ================================================================ claims *)
PublicCalls == {"force_string", "trace_string", "exc_string"}

\* C1: none of force_string, trace_string and exc_string ever raises to its
\* caller, whatever the value, the frame sequence, the exception state and
\* the encoding name set (one the host does not support included).
C1_NeverRaises ==
  last.op \in PublicCalls => ~last.res.raised

\* the result holds the pieces of the composed line, '("' and then '") in '
HasComposedForm(s) ==
  \E i \in 1..Len(s), j \in 1..Len(s) :
    /\ i + 2 <= j
    /\ j + 5 <= Len(s)
    /\ SubSeq(s, i, i + 1) = <<40, 34>>
    /\ SubSeq(s, j, j + 5) = <<34, 41, 32, 105, 110, 32>>

\* C2: exc_string never raises; with no active exception it returns exactly
\* "no exception" under every encoding; with an active exception it returns
\* the composed line, or exactly "exc_string() failed to extract exception
\* string" when a step of the extraction fails.
C2_ExcStringTotal ==
  last.op = "exc_string" =>
    /\ ~last.res.raised
    /\ ~exc.active => last.res.s = NoException
    /\ (exc.active /\ (last.arg.tbFails \/ exc_string_encoding \notin HostCodecs))
         => last.res.s = FailedToExtract
    /\ (exc.active /\ ~last.arg.tbFails /\ exc_string_encoding \in HostCodecs)
         => (last.res.s # FailedToExtract /\ HasComposedForm(last.res.s))

C2_Witness ==
  /\ last.op = "exc_string"
  /\ exc.active
  /\ exc_string_encoding = "no-such-codec"
  /\ last.res.s = FailedToExtract

\* the byte a one-byte string holds after decode and encode under the setting
Reencoded(b) ==
  EncodeChar(DecodeByte(b, exc_string_encoding), exc_string_encoding)

\* the map as C3 states it
ClaimedMap(c) ==
  IF c \in {9, 10} THEN 32 ELSE IF c < 32 THEN 63 ELSE c

\* the map as amended
AmendedMap(c) ==
  IF c \in {0, 10, 13} THEN 32
  ELSE IF c = 9 THEN 9
  ELSE IF c < 32 THEN 63
  ELSE c

Representable(b, enc) ==
  \/ b < 128
  \/ enc = "latin-1"
  \/ enc = "windows-1251" /\ b # 152

\* C4: under a valid single-byte encoding the string exc_string returns has
\* no newline, no carriage return, no other control character 0x00-0x1F and
\* only characters of the encoding, in every part of it, the type name
\* included.
C4_SingleLineSafe ==
  (last.op = "exc_string" /\ exc_string_encoding \in HostCodecs) =>
    \A i \in 1..Len(last.res.s) :
      /\ last.res.s[i] >= 32
      /\ Representable(last.res.s[i], exc_string_encoding)

\* C5: while an exception is active and the extraction does not fail,
\* exc_string returns TypeName + '("' + Message + '") in ' + Chain: TypeName the
\* name the type slot exposes, else the name of its runtime type; Message
\* force_string of the value if there is one, else of the type slot; Chain
\* trace_string of the traceback's frames.
C5_Composed ==
  (last.op = "exc_string" /\ exc.active /\ last.res.s # FailedToExtract) =>
    last.res.s =
      (IF exc.t.kind = "class" THEN exc.t.name ELSE ClassName(exc.t))
      \o <<40, 34>>
      \o force_string(IF exc.v.kind = "None" THEN exc.t ELSE exc.v, exc_string_encoding).s
      \o <<34, 41, 32, 105, 110, 32>>
      \o trace_string(Tb(exc.tb), Append(stack, ExcStringFrame), exc_string_encoding).s

C5_Witness ==
  /\ last.op = "exc_string"
  /\ exc.active
  /\ exc.t.kind = "class"
  /\ Len(exc.tb) = 3
  /\ last.res.s # FailedToExtract

RECURSIVE StripDirs(_)
\* a path without its directory components
StripDirs(p) ==
  IF \E i \in 1..Len(p) : p[i] = 47 THEN StripDirs(Tail(p)) ELSE p

\* the entry of one frame: force_string("<function>() (<basename>:<line>)")
Entry(fr, enc) ==
  force_string(StrV(fr.m \o <<40, 41, 32, 40>> \o StripDirs(fr.f) \o <<58>>
                    \o IntToStr(fr.n) \o <<41>>), enc).s

RECURSIVE InnermostFirst(_, _)
\* the entries of f1..fn in the order fn, ..., f1, " <- " between neighbours
InnermostFirst(fs, enc) ==
  IF fs = <<>> THEN <<>>
  ELSE IF Len(fs) = 1 THEN Entry(fs[1], enc)
  ELSE InnermostFirst(Tail(fs), enc) \o <<32, 60, 45, 32>> \o Entry(fs[1], enc)

\* C6: for every non-empty frame sequence f1..fn given outermost first,
\* trace_string returns the n entries force_string("<function>()
\* (<basename>:<line>)") in the order fn, ..., f1, joined by " <- ".
C6_InnermostFirst ==
  (last.op = "trace_string" /\ last.arg.given /\ last.arg.frames # <<>>
     /\ ~last.res.raised) =>
    last.res.s = InnermostFirst(last.arg.frames, exc_string_encoding)

C6_Witness ==
  /\ last.op = "trace_string"
  /\ last.arg.given
  /\ Len(last.arg.frames) = 2
  /\ last.arg.frames[1] # last.arg.frames[2]
  /\ ~last.res.raised

\* the line C7 gives for the docstring's sample
SampleLine ==
  Lit(<<"E", "x", "c", "e", "p", "t", "i", "o", "n", "(", "\"", "z", "?", "z", " ", "\"", ")",
        " ", "i", "n", " ", "_", "_", "i", "n", "i", "t", "_", "_", "(", ")", " ",
        "(", "t", "e", "s", "t", ".", "p", "y", ":", "5", ")", " ", "<", "-", " ",
        "f", "o", "o", "(", ")", " ", "(", "t", "e", "s", "t", ".", "p", "y", ":", "7", ")">>)

\* C7: with the encoding set to ascii, Exception("z\xffz\n    ") raised in
\* __init__, called from foo, makes exc_string return
\* 'Exception("z?z ") in __init__() (<file>:<line>) <- foo() (<file>:<line>)'.
C7_DocSample ==
  (/\ last.op = "exc_string"
   /\ ~last.arg.tbFails
   /\ exc_string_encoding = "ascii"
   /\ exc.active
   /\ exc.v = InstV(ExceptionName, StrV(SampleMessage))
   /\ exc.tb = <<FooFrame, InitFrame>>) =>
    last.res.s = SampleLine

\* the default textual conversion of v fails: __str__ raises, returns the
\* object itself or a non-string, or holds text str() cannot encode
ConversionFails(v) ==
  \/ v.kind = "object" /\ v.beh \in {"raise", "self"}
  \/ v.kind = "object" /\ v.beh = "value" /\ v.ret.kind \notin {"str", "unicode"}
  \/ v.kind = "instance" /\ v.arg.kind = "unicode"
       /\ \E i \in 1..Len(v.arg.s) : v.arg.s[i] >= 128

\* C8: for a non-textual v whose conversion fails, force_string returns
\* exactly "unable to convert <class name> to string, str() failed" without
\* re-entering itself; when the conversion succeeds it re-enters itself
\* exactly once; its recursion depth is at most one for every input.
C8_ConversionFailure ==
  last.op = "force_string" =>
    /\ last.res.depth <= 1
    /\ (last.arg.kind \in {"object", "instance"} /\ ConversionFails(last.arg)) =>
         /\ ~last.res.raised
         /\ last.res.depth = 0
         /\ last.res.s =
              <<117, 110, 97, 98, 108, 101, 32, 116, 111, 32, 99, 111, 110, 118,
                101, 114, 116, 32>>
              \o last.arg.cls
              \o <<32, 116, 111, 32, 115, 116, 114, 105, 110, 103, 44, 32, 115,
                   116, 114, 40, 41, 32, 102, 97, 105, 108, 101, 100>>
    /\ (last.arg.kind \notin {"str", "unicode"} /\ ~ConversionFails(last.arg)) =>
         last.res.depth = 1

C8_Witness ==
  /\ last.op = "force_string"
  /\ last.arg.kind = "object"
  /\ last.arg.beh = "self"
  /\ ~last.res.raised
  /\ last.res.depth = 0

\* one step keeps the setting unless it is set_exc_string_encoding, which
\* stores its argument; get_exc_string_encoding returns the setting
SettingStep ==
  /\ last'.op = "set" => exc_string_encoding' = last'.name
  /\ last'.op # "set" => exc_string_encoding' = exc_string_encoding
  /\ last'.op = "get" => last'.name = exc_string_encoding

\* the Cyrillic sample sanitizes by the setting in force at the call
SanitizedBySetting ==
  (last.op = "force_string" /\ last.arg \in {StrV(russian), UniV(russian_unicode)}) =>
    /\ exc_string_encoding = "windows-1251" => last.res.s = russian
    /\ exc_string_encoding = "ascii" => last.res.s = <<63, 63, 63>>

\* C9: get_exc_string_encoding returns the argument of the most recent
\* set_exc_string_encoding ("windows-1251" before the first); no other call
\* changes the setting; every sanitization uses the setting in force, so the
\* Cyrillic sample comes back as itself under windows-1251 and as "?" of the
\* same length under ascii.
C9_Setting ==
  /\ exc_string_encoding = "windows-1251"
  /\ [][SettingStep]_vars
  /\ []SanitizedBySetting

C9_Witness ==
  /\ last.op = "force_string"
  /\ last.arg = UniV(russian_unicode)
  /\ exc_string_encoding = "ascii"
  /\ last.res.s = <<63, 63, 63>>

\* C10: when the caller gives a frame sequence, an empty one included, the
\* result of trace_string is built from the given frames alone.
C10_GivenFramesOnly ==
  (last.op = "trace_string" /\ last.arg.given /\ ~last.res.raised) =>
    last.res.s = InnermostFirst(last.arg.frames, exc_string_encoding)

====
